---- MODULE Spec2Model ----
(***************************************************************************)
(* Model of LAB_3_4_5/snake_game.py: the Snake state machine, the obstacle *)
(* and food placement, the BFS pathfinder and one iteration of game_loop   *)
(* (event handling, autopilot, advance, collision and food resolution).    *)
(* Rendering, fonts and the clock are left out: they read the state only.  *)
(*                                                                         *)
(* Cells and directions are pairs <<x, y>>.  Python lists are sequences;   *)
(* obstacles.positions is kept as the set of its (pairwise distinct)       *)
(* elements, since the program only tests membership in it.                *)
(***************************************************************************)
EXTENDS Integers, Sequences, FiniteSets, TLC

\* ------------------------------------------------------------- bounds
\* GRID_SIZE = 20 in the source; the model runs on a smaller torus.
GRID_SIZE == 6
\* num_initial_obstacles = 5 in the source.
NUM_OBSTACLES == 2
\* random.randint(0, GRID_SIZE - 1) is sampled from 0..MaxRandom only.
MaxRandom == 1
\* game_loop iterations are explored while snake.length <= MaxLength.
MaxLength == 3
\* Inputs of the stand-alone pathfinder specification: coordinates in
\* 0..MaxCoord, snake_body of at most MaxBody cells, at most MaxBlocks obstacles.
MaxCoord == 2
MaxBody == 2
MaxBlocks == 1

\* ------------------------------------------------------------- constants
UP == <<0, -1>>
DOWN == <<0, 1>>
LEFT == <<-1, 0>>
RIGHT == <<1, 0>>

\* The order [UP, DOWN, LEFT, RIGHT] used by every loop over directions.
Directions == <<UP, DOWN, LEFT, RIGHT>>

\* None (food_pos default of get_random_position).
None == <<>>

Range(s) == {s[i] : i \in 1..Len(s)}

\* Python s[:-1]
ButLast(s) == IF Len(s) = 0 THEN <<>> ELSE SubSeq(s, 1, Len(s) - 1)

\* Python s[2:]
From2(s) == IF Len(s) <= 2 THEN <<>> ELSE SubSeq(s, 3, Len(s))

\* The values random.randint(0, GRID_SIZE - 1) takes in the model.
RandomInts == {i \in 0..(GRID_SIZE - 1) : i <= MaxRandom}

\* ------------------------------------------------------------- helpers
\* get_random_position without the "pos != food_pos" test.
get_random_position_same_food(snake_body, obstacle_cells, food_pos) ==
    {pos \in RandomInts \X RandomInts :
        pos \notin snake_body /\ pos \notin obstacle_cells}

\* get_random_position without the "pos not in obstacles" test.
get_random_position_on_obstacle(snake_body, obstacle_cells, food_pos) ==
    {pos \in RandomInts \X RandomInts :
        pos \notin snake_body /\ (food_pos = None \/ pos # food_pos)}

\* get_random_position without the "pos not in snake_body" test.
get_random_position_on_snake(snake_body, obstacle_cells, food_pos) ==
    {pos \in RandomInts \X RandomInts :
        pos \notin obstacle_cells /\ (food_pos = None \/ pos # food_pos)}

\* get_random_position: the cells the rejection loop can return.
\* snake_body and obstacles are the sets of cells of the two lists.
get_random_position(snake_body, obstacle_cells, food_pos) ==
    {pos \in RandomInts \X RandomInts :
        /\ pos \notin snake_body
        /\ pos \notin obstacle_cells
        /\ (food_pos = None \/ pos # food_pos)}

\* ------------------------------------------------------------- Snake
\* Snake.reset: the body and counters (the heading is drawn by the caller).
StartPositions == << <<GRID_SIZE \div 2, GRID_SIZE \div 2>> >>

\* Snake.turn without the reversal guard.
turn_always(len, dir, point) == point

\* Snake.turn: the heading after turn(point).
turn(len, dir, point) ==
    IF len > 1 /\ <<point[1] * (-1), point[2] * (-1)>> = dir
    THEN dir
    ELSE point

\* Snake.move trimming the tail with >= in place of >.
move_trims_early(pos, dir, len) ==
    LET cur == pos[1]
        new_head == <<(cur[1] + dir[1]) % GRID_SIZE, (cur[2] + dir[2]) % GRID_SIZE>>
        inserted == <<new_head>> \o pos
    IN  IF Len(pos) > 2 /\ new_head \in Range(From2(pos))
        THEN [collision |-> TRUE, positions |-> pos]
        ELSE [collision |-> FALSE,
              positions |-> IF Len(inserted) >= len THEN ButLast(inserted) ELSE inserted]

\* Snake.move testing the new head against positions[1:].
move_checks_neck(pos, dir, len) ==
    LET cur == pos[1]
        new_head == <<(cur[1] + dir[1]) % GRID_SIZE, (cur[2] + dir[2]) % GRID_SIZE>>
        inserted == <<new_head>> \o pos
    IN  IF Len(pos) > 1 /\ new_head \in Range(SubSeq(pos, 2, Len(pos)))
        THEN [collision |-> TRUE, positions |-> pos]
        ELSE [collision |-> FALSE,
              positions |-> IF Len(inserted) > len THEN ButLast(inserted) ELSE inserted]

\* Snake.move without "% GRID_SIZE".
move_unwrapped(pos, dir, len) ==
    LET cur == pos[1]
        new_head == <<cur[1] + dir[1], cur[2] + dir[2]>>
        inserted == <<new_head>> \o pos
    IN  IF Len(pos) > 2 /\ new_head \in Range(From2(pos))
        THEN [collision |-> TRUE, positions |-> pos]
        ELSE [collision |-> FALSE,
              positions |-> IF Len(inserted) > len THEN ButLast(inserted) ELSE inserted]

\* Snake.move: [collision, positions] after move().
move(pos, dir, len) ==
    LET cur == pos[1]
        new_head == <<(cur[1] + dir[1]) % GRID_SIZE, (cur[2] + dir[2]) % GRID_SIZE>>
        inserted == <<new_head>> \o pos
    IN  IF Len(pos) > 2 /\ new_head \in Range(From2(pos))
        THEN [collision |-> TRUE, positions |-> pos]
        ELSE [collision |-> FALSE,
              positions |-> IF Len(inserted) > len THEN ButLast(inserted) ELSE inserted]

\* ------------------------------------------------------------- Obstacles
\* generate_obstacles: the safe spawn area around the head (not wrapped).
safe_spawn_area_for_snake(head) ==
    {<<head[1] + dx, head[2] + dy>> : dx \in -2..2, dy \in -2..2}

\* generate_obstacles: the for-loop with k draws to go; placed is the set of
\* cells of self.positions so far (a repeated cell would leave the set smaller).
RECURSIVE generate_loop(_, _, _)
generate_loop(k, occupied, placed) ==
    IF k = 0 THEN {placed}
    ELSE UNION {generate_loop(k - 1, occupied, placed \cup {pos}) :
                   pos \in get_random_position(occupied, placed, None)}

\* generate_obstacles: the sets of cells the loop can produce.
generate_obstacles(snake_body) ==
    generate_loop(NUM_OBSTACLES,
                  Range(snake_body) \cup safe_spawn_area_for_snake(snake_body[1]),
                  {})

\* ------------------------------------------------------------- BFS
\* One pass of the inner for-loop of bfs_pathfinding over Directions[i..4]:
\* st = [queue, visited] after the neighbours of the last cell of path.
RECURSIVE bfs_expand(_, _, _, _, _)
bfs_expand(i, path, st, snake_body, obstacle_cells) ==
    IF i > Len(Directions) THEN st
    ELSE LET current_head == path[Len(path)]
             next_x == current_head[1] + Directions[i][1]
             next_y == current_head[2] + Directions[i][2]
             next_pos == <<next_x, next_y>>
             skip == \/ ~(0 <= next_x /\ next_x < GRID_SIZE /\ 0 <= next_y /\ next_y < GRID_SIZE)
                     \/ next_pos \in st.visited
                     \/ next_pos \in obstacle_cells
                     \/ next_pos \in Range(ButLast(snake_body))
             st2 == IF skip THEN st
                    ELSE [queue |-> Append(st.queue, Append(path, next_pos)),
                          visited |-> st.visited \cup {next_pos}]
         IN  CHOOSE r \in {bfs_expand(i + 1, path, s, snake_body, obstacle_cells) :
                                s \in {st2}} : TRUE

\* The while-loop of bfs_pathfinding with queue.pop() in place of popleft().
RECURSIVE bfs_loop_lifo(_, _, _, _)
bfs_loop_lifo(st, target_pos, snake_body, obstacle_cells) ==
    IF st.queue = <<>> THEN <<>>
    ELSE LET path == st.queue[Len(st.queue)]
             rest == [queue |-> ButLast(st.queue), visited |-> st.visited]
         IN  IF path[Len(path)] = target_pos
             THEN Tail(path)
             ELSE CHOOSE r \in {bfs_loop_lifo(s, target_pos, snake_body, obstacle_cells) :
                                    s \in {bfs_expand(1, path, rest, snake_body,
                                                      obstacle_cells)}} : TRUE

\* The while-loop of bfs_pathfinding.
RECURSIVE bfs_loop(_, _, _, _)
bfs_loop(st, target_pos, snake_body, obstacle_cells) ==
    IF st.queue = <<>> THEN <<>>
    ELSE LET path == Head(st.queue)
             rest == [queue |-> Tail(st.queue), visited |-> st.visited]
         IN  IF path[Len(path)] = target_pos
             THEN Tail(path)
             ELSE CHOOSE r \in {bfs_loop(s, target_pos, snake_body, obstacle_cells) :
                                    s \in {bfs_expand(1, path, rest, snake_body,
                                                      obstacle_cells)}} : TRUE

bfs_pathfinding(start_pos, target_pos, snake_body, obstacle_cells) ==
    bfs_loop([queue |-> << <<start_pos>> >>, visited |-> {start_pos}],
             target_pos, snake_body, obstacle_cells)

\* ------------------------------------------------------------- state
VARIABLES
    positions,       \* snake.positions, head first
    direction,       \* snake.direction
    length,          \* snake.length
    score,           \* snake.score
    obstacles,       \* obstacles.positions
    food,            \* food.position
    game_over,
    autopilot_on,
    autopilot_path,
    last_tick,       \* what the last iteration of game_loop did (history)
    bfs_call,        \* arguments of a stand-alone bfs_pathfinding call
    bfs_result       \* its return value

vars == <<positions, direction, length, score, obstacles, food, game_over,
          autopilot_on, autopilot_path, last_tick, bfs_call, bfs_result>>

game_vars == <<positions, direction, length, score, obstacles, food, game_over,
               autopilot_on, autopilot_path, last_tick>>

NoTick == [mode |-> "none", popped |-> None, free |-> {}, collision |-> FALSE, ate |-> FALSE]

NoCall == [start_pos |-> None, target_pos |-> None, snake_body |-> <<>>, obstacles |-> {}]

NoResult == [done |-> FALSE, path |-> <<>>]

\* snake.get_head_position()
get_head_position == positions[1]

\* ------------------------------------------------------------- autopilot
\* The cell reached from head by one wrap-around step d (next_safe_pos).
next_safe_pos(head, d) == <<(head[1] + d[1]) % GRID_SIZE, (head[2] + d[2]) % GRID_SIZE>>

\* The for-loop of the safety heuristic over Directions[i..4]: possible_moves.
RECURSIVE possible_moves(_, _)
possible_moves(i, acc) ==
    IF i > Len(Directions) THEN acc
    ELSE LET d == Directions[i]
             p == next_safe_pos(get_head_position, d)
             safe == p \notin Range(positions) /\ p \notin obstacles
             reverse == length > 1 /\ d = <<direction[1] * (-1), direction[2] * (-1)>>
         IN  IF safe /\ ~(reverse /\ Len(acc) > 1)
             THEN possible_moves(i + 1, Append(acc, d))
             ELSE possible_moves(i + 1, acc)

\* body_to_avoid_for_bfs
body_to_avoid_for_bfs == IF length > 1 THEN ButLast(positions) ELSE positions

\* path_to_food, as computed when autopilot_path is empty.
path_to_food ==
    bfs_pathfinding(get_head_position, food, body_to_avoid_for_bfs, obstacles)

\* The replanning block: the outcomes [direction, path, mode] of
\* "if not autopilot_path: ..." (random.choice makes it a set).
replan ==
    IF path_to_food # <<>>
    THEN {[direction |-> direction, path |-> path_to_food, mode |-> "plan"]}
    ELSE LET moves == possible_moves(1, <<>>)
         IN  IF moves # <<>>
             THEN IF direction \in Range(moves)
                  THEN {[direction |-> turn(length, direction, direction),
                         path |-> <<>>, mode |-> "safety"]}
                  ELSE {[direction |-> turn(length, direction, m),
                         path |-> <<>>, mode |-> "safety"] : m \in Range(moves)}
             ELSE {[direction |-> direction, path |-> <<>>, mode |-> "stuck"]}

\* The wrap-around normalisation of one component of the delta.
normalise(d) == IF d > 1 THEN -1 ELSE IF d < -1 THEN 1 ELSE d

\* The turn intent derived from a popped path cell.
path_intent(next_move_pos, head_pos) ==
    <<normalise(next_move_pos[1] - head_pos[1]), normalise(next_move_pos[2] - head_pos[2])>>

\* The path-following block "if autopilot_path: ..." applied to outcome r.
follow(r) ==
    IF r.path # <<>>
    THEN [direction |-> turn(length, r.direction, path_intent(Head(r.path), get_head_position)),
          path |-> Tail(r.path), mode |-> r.mode, popped |-> Head(r.path)]
    ELSE [direction |-> r.direction, path |-> r.path, mode |-> r.mode, popped |-> None]

\* Lines 292-348: the outcomes of intent resolution in one iteration.
resolve_intent ==
    IF autopilot_on
    THEN IF autopilot_path = <<>>
         THEN {follow(r) : r \in replan}
         ELSE {follow([direction |-> direction, path |-> autopilot_path, mode |-> "follow"])}
    ELSE {[direction |-> direction, path |-> autopilot_path, mode |-> "manual", popped |-> None]}

\* The wrap-around neighbours of the head free of body and obstacle cells.
free_neighbours ==
    {p \in {next_safe_pos(get_head_position, Directions[i]) : i \in 1..Len(Directions)} :
        p \notin Range(positions) /\ p \notin obstacles}

\* ------------------------------------------------------------- reset
\* reset_game_state without "autopilot_path = []".
reset_game_state_keeps_path(old_food) ==
    \E d \in Range(Directions) :
    \E obs \in generate_obstacles(StartPositions) :
    \E f \in get_random_position(Range(StartPositions), obs, old_food) :
        /\ positions' = StartPositions
        /\ direction' = d
        /\ length' = 1
        /\ score' = 0
        /\ obstacles' = obs
        /\ food' = f
        /\ game_over' = FALSE
        /\ UNCHANGED autopilot_path
        /\ last_tick' = NoTick

\* reset_game_state, from a state whose food is at old_food.
reset_game_state(old_food) ==
    \E d \in Range(Directions) :
    \E obs \in generate_obstacles(StartPositions) :
    \E f \in get_random_position(Range(StartPositions), obs, old_food) :
        /\ positions' = StartPositions
        /\ direction' = d
        /\ length' = 1
        /\ score' = 0
        /\ obstacles' = obs
        /\ food' = f
        /\ game_over' = FALSE
        /\ autopilot_path' = <<>>
        /\ last_tick' = NoTick

\* game_loop up to the first iteration: Snake(), Obstacles(...), Food(...),
\* then reset_game_state().
Init ==
    /\ \E obs0 \in generate_obstacles(StartPositions) :
       \E f0 \in get_random_position(Range(StartPositions), obs0, None) :
       \E d \in Range(Directions) :
       \E obs \in generate_obstacles(StartPositions) :
       \E f \in get_random_position(Range(StartPositions), obs, f0) :
            /\ positions = StartPositions
            /\ direction = d
            /\ length = 1
            /\ score = 0
            /\ obstacles = obs
            /\ food = f
    /\ game_over = FALSE
    /\ autopilot_on = FALSE
    /\ autopilot_path = <<>>
    /\ last_tick = NoTick
    /\ bfs_call = NoCall
    /\ bfs_result = NoResult

\* ------------------------------------------------------------- events
\* KEYDOWN of an arrow key without the "not autopilot_on" test.
KeyArrow_in_autopilot(d) ==
    /\ direction' = IF ~game_over THEN turn(length, direction, d) ELSE direction
    /\ UNCHANGED <<positions, length, score, obstacles, food, game_over,
                   autopilot_on, autopilot_path, last_tick, bfs_call, bfs_result>>

\* KEYDOWN of an arrow key.
KeyArrow(d) ==
    /\ direction' = IF ~game_over /\ ~autopilot_on THEN turn(length, direction, d) ELSE direction
    /\ UNCHANGED <<positions, length, score, obstacles, food, game_over,
                   autopilot_on, autopilot_path, last_tick, bfs_call, bfs_result>>

\* KEYDOWN of K_a without "autopilot_path = []".
KeyA_keeps_path ==
    /\ IF game_over
       THEN UNCHANGED autopilot_on
       ELSE autopilot_on' = ~autopilot_on
    /\ UNCHANGED <<positions, direction, length, score, obstacles, food, game_over,
                   autopilot_path, last_tick, bfs_call, bfs_result>>

\* KEYDOWN of K_a.
KeyA ==
    /\ IF game_over
       THEN UNCHANGED <<autopilot_on, autopilot_path>>
       ELSE /\ autopilot_on' = ~autopilot_on
            /\ autopilot_path' = <<>>
    /\ UNCHANGED <<positions, direction, length, score, obstacles, food, game_over,
                   last_tick, bfs_call, bfs_result>>

\* KEYDOWN of K_r.
KeyR ==
    /\ IF game_over
       THEN reset_game_state(food)
       ELSE UNCHANGED <<positions, direction, length, score, obstacles, food, game_over,
                        autopilot_path, last_tick>>
    /\ UNCHANGED <<autopilot_on, bfs_call, bfs_result>>

\* ------------------------------------------------------------- tick
\* The body of "if not game_over:" for one resolved intent.
advance(intent) ==
    LET m == move(positions, intent.direction, length)
        head == m.positions[1]
        eaten == head = food
    IN  /\ direction' = intent.direction
        /\ positions' = m.positions
        /\ game_over' = (head \in obstacles \/ m.collision)
        /\ IF eaten
           THEN /\ length' = length + 1
                /\ score' = score + 1
                /\ food' \in get_random_position(Range(m.positions), obstacles, food)
                /\ autopilot_path' = <<>>
           ELSE /\ UNCHANGED <<length, score, food>>
                /\ autopilot_path' = intent.path
        /\ last_tick' = [mode |-> intent.mode, popped |-> intent.popped,
                         free |-> IF intent.mode \in {"safety", "stuck"}
                                  THEN free_neighbours ELSE {},
                         collision |-> m.collision, ate |-> eaten]

\* One iteration of the game loop without the "if not game_over:" guard.
Tick_after_game_over ==
    /\ length <= MaxLength
    /\ \E intent \in resolve_intent : advance(intent)
    /\ UNCHANGED <<obstacles, autopilot_on, bfs_call, bfs_result>>

\* One iteration of the game loop after its events (lines 290-364).
Tick ==
    /\ length <= MaxLength
    /\ IF game_over
       THEN UNCHANGED game_vars
       ELSE \E intent \in resolve_intent : advance(intent)
    /\ UNCHANGED <<obstacles, autopilot_on, bfs_call, bfs_result>>

Next ==
    \/ \E d \in Range(Directions) : KeyArrow(d)
    \/ KeyA
    \/ KeyR
    \/ Tick

Spec == Init /\ [][Next]_vars

\* ------------------------------------------------------------- claims
\* C1: after every completed move the body list holds no coordinate twice.
C1_BodyCellsDistinct == Cardinality(Range(positions)) = Len(positions)

\* C2 (as stated): after every completed tick, also one that eats the food,
\* snake.length equals the number of elements of snake.positions.
C2_LengthEqualsBody == length = Len(positions)

\* C2 (amended): length is len(positions) after a tick that advanced without
\* eating, len(positions) + 1 after a tick that ate, and never anything but
\* one of the two.
C2_LengthWithinOne ==
    /\ length - Len(positions) \in {0, 1}
    /\ last_tick.ate => length = Len(positions) + 1
    /\ (~last_tick.ate /\ ~last_tick.collision) => length = Len(positions)

C2_Witness == last_tick.ate /\ length = Len(positions) + 1 /\ length > 2

\* C3: the heading is always one of UP, DOWN, LEFT, RIGHT.
C3_HeadingIsUnit == direction \in Range(Directions)

\* C4: the path adopted when replanning holds no obstacle cell and no body
\* cell other than the tail (no body cell at all when length is 1).
C4_PlanAvoidsBody ==
    (autopilot_on /\ ~game_over /\ autopilot_path = <<>>) =>
        \A i \in 1..Len(path_to_food) :
            /\ path_to_food[i] \notin obstacles
            /\ path_to_food[i] \notin Range(body_to_avoid_for_bfs)

\* C5: a tick that starts with a non-empty PlannedPath never ends in a
\* self-collision report.
C5_FollowNeverCollides == last_tick.mode = "follow" => ~last_tick.collision

\* C9: with no path to the food and exactly one free wrap-around neighbour
\* of the head, the tick moves the head onto that neighbour.
C9_SoleNeighbourTaken ==
    (last_tick.mode # "none" /\ Cardinality(last_tick.free) = 1) =>
        positions[1] \in last_tick.free

\* C6: the food is never on a body cell or an obstacle (initially and after
\* every step), and whenever it is relocated, by consumption or by a reset,
\* its new position differs from the previous one.
FoodIsFree == food \notin Range(positions) /\ food \notin obstacles

FoodRelocated == score' = score + 1 \/ (game_over /\ ~game_over')

C6_FoodFreeAndRelocated ==
    FoodIsFree /\ [][FoodIsFree' /\ (FoodRelocated => food' # food)]_vars

C6_Witness == last_tick.ate /\ Len(positions) > 1 /\ FoodIsFree

\* C7: once game_over holds, every step other than a Restart leaves the
\* snake, the obstacles, the food and game_over unchanged.
C7_GameOverIsSticky ==
    [][game_over =>
          (KeyR \/ UNCHANGED <<positions, direction, length, score, obstacles,
                               food, game_over>>)]_vars

C7_Witness == game_over /\ autopilot_on /\ score > 0

\* C8: a tick that marks the episode over neither grows the snake nor
\* relocates the food.
C8_NoGrowthOnGameOver ==
    [][(~game_over /\ game_over') =>
          (length' = length /\ score' = score /\ food' = food)]_vars

C8_Witness == game_over /\ (last_tick.collision \/ positions[1] \in obstacles)

\* ------------------------------------------------------------- pathfinder alone
\* bfs_pathfinding called on arbitrary arguments from a bounded set.
BfsCells == {c \in (0..MaxCoord) \X (0..MaxCoord) : c[1] < GRID_SIZE /\ c[2] < GRID_SIZE}

BfsBodies == UNION {[1..n -> BfsCells] : n \in 0..MaxBody}

InitBfs ==
    /\ positions = StartPositions
    /\ direction = UP
    /\ length = 1
    /\ score = 0
    /\ obstacles = {}
    /\ food = <<0, 0>>
    /\ game_over = FALSE
    /\ autopilot_on = FALSE
    /\ autopilot_path = <<>>
    /\ last_tick = NoTick
    /\ bfs_call \in {[start_pos |-> s, target_pos |-> t, snake_body |-> b, obstacles |-> o] :
                        s \in BfsCells, t \in BfsCells, b \in BfsBodies,
                        o \in {x \in SUBSET BfsCells : Cardinality(x) <= MaxBlocks}}
    /\ bfs_result = NoResult

CallBfs ==
    /\ ~bfs_result.done
    /\ bfs_result' = [done |-> TRUE,
                      path |-> bfs_pathfinding(bfs_call.start_pos, bfs_call.target_pos,
                                               bfs_call.snake_body, bfs_call.obstacles)]
    /\ UNCHANGED <<game_vars, bfs_call>>

NextBfs == CallBfs

SpecBfs == InitBfs /\ [][NextBfs]_vars

\* The cells a path of the call may use: inside the grid, no obstacle, not
\* one of snake_body[:-1].
BfsOpen(c) ==
    /\ c[1] \in 0..(GRID_SIZE - 1) /\ c[2] \in 0..(GRID_SIZE - 1)
    /\ c \notin bfs_call.obstacles
    /\ c \notin Range(ButLast(bfs_call.snake_body))

BfsNeighbours(c) == {n \in {<<c[1] + Directions[i][1], c[2] + Directions[i][2]>> : i \in 1..4} : BfsOpen(n)}

\* Length of a shortest path from the cells of frontier (at distance k from
\* start) to target_pos, or -1 when there is none.
RECURSIVE BfsDistance(_, _, _)
BfsDistance(frontier, seen, k) ==
    IF bfs_call.target_pos \in frontier THEN k
    ELSE LET next == (UNION {BfsNeighbours(c) : c \in frontier}) \ seen
         IN  IF next = {} THEN -1 ELSE BfsDistance(next, seen \cup next, k + 1)

\* C10: bfs_pathfinding returns a shortest path of single non-wrapping steps
\* over open cells from a neighbour of start to target, start excluded, and
\* the empty list when target cannot be reached.
C10_BfsShortestPath ==
    bfs_result.done =>
        LET path == bfs_result.path
            start == bfs_call.start_pos
            dist == BfsDistance({start}, {start}, 0)
            before(i) == IF i = 1 THEN start ELSE path[i - 1]
        IN  IF dist = -1
            THEN path = <<>>
            ELSE /\ Len(path) = dist
                 /\ dist > 0 => path[Len(path)] = bfs_call.target_pos
                 /\ \A i \in 1..Len(path) :
                        /\ BfsOpen(path[i])
                        /\ path[i] # start
                        /\ <<path[i][1] - before(i)[1], path[i][2] - before(i)[2]>>
                               \in Range(Directions)

\* A call whose shortest path is a detour around blocked cells.
C10_Witness ==
    /\ bfs_result.done
    /\ Len(bfs_result.path) = 4
    /\ bfs_call.target_pos = <<bfs_call.start_pos[1] + 2, bfs_call.start_pos[2]>>

\* ------------------------------------------------------------- claims (continued)
\* The exact opposite of heading d.
Opposite(d) == <<0 - d[1], 0 - d[2]>>

\* C11: turn(d) with d the exact opposite of the heading keeps the heading
\* when length > 1 and sets it to d when length = 1; a turn changes nothing
\* but the heading.  (Manual arrow keys are the calls of turn alone.)
C11_TurnOpposite ==
    [][\A d \in Range(Directions) :
          (~game_over /\ ~autopilot_on /\ KeyArrow(d)) =>
              /\ UNCHANGED <<positions, length, score>>
              /\ d = Opposite(direction) =>
                    direction' = (IF length > 1 THEN direction ELSE d)]_vars

\* A state in which turn(opposite) is refused, and so is left as it is.
C11_Witness ==
    /\ ~game_over /\ ~autopilot_on /\ length > 1 /\ Len(positions) > 1
    /\ direction \in Range(Directions)
    /\ turn(length, direction, Opposite(direction)) = direction

\* C12: autopilot_path is empty right after every tick that eats the food,
\* after every toggle of the autopilot and after every reset.
C12_PathCleared ==
    /\ autopilot_path = <<>>
    /\ [][(\/ score' = score + 1
           \/ autopilot_on' # autopilot_on
           \/ game_over /\ ~game_over') => autopilot_path' = <<>>]_vars

\* The food is eaten by a tick that follows a planned path.
C12_Witness ==
    /\ autopilot_on /\ last_tick.ate /\ last_tick.mode \in {"plan", "follow"}
    /\ autopilot_path = <<>>

\* C13: while autopilot_on is true an arrow key leaves the heading and the
\* rest of the state as they are: an arrow-key step is no change at all, and
\* the heading changes only in a step that advances the snake, ends the game
\* or resets it.
C13_ArrowIgnoredInAutopilot ==
    [][autopilot_on =>
          /\ \A d \in Range(Directions) : KeyArrow(d) => UNCHANGED vars
          /\ direction' # direction =>
                (positions' # positions \/ game_over' # game_over)]_vars

\* The autopilot steers a snake that an arrow key could otherwise turn.
C13_Witness ==
    /\ autopilot_on /\ ~game_over /\ last_tick.mode = "follow"
    /\ \E d \in Range(Directions) : turn(length, direction, d) # direction

\* |x|
Abs(x) == IF x < 0 THEN 0 - x ELSE x

\* The Chebyshev distance of two cells.
Chebyshev(a, b) ==
    IF Abs(a[1] - b[1]) > Abs(a[2] - b[2]) THEN Abs(a[1] - b[1]) ELSE Abs(a[2] - b[2])

\* The state reset_game_state leaves behind.
FreshGame ==
    /\ positions = << <<GRID_SIZE \div 2, GRID_SIZE \div 2>> >>
    /\ length = 1 /\ score = 0 /\ ~game_over
    /\ autopilot_path = <<>>
    /\ Cardinality(obstacles) = NUM_OBSTACLES
    /\ \A o \in obstacles : Chebyshev(o, positions[1]) > 2
    /\ food \notin Range(positions) /\ food \notin obstacles

\* C14: right after reset_game_state (at start and on Restart) the body is the
\* single centre cell, length 1, score 0, game_over false, the planned path
\* empty, the obstacle field has exactly NUM_OBSTACLES distinct cells, all
\* farther than Chebyshev distance 2 from the head, and the food is on
\* neither the body nor an obstacle.
C14_FreshAfterReset ==
    /\ FreshGame
    /\ [][(game_over /\ ~game_over') => FreshGame']_vars

\* A fresh game whose obstacles sit just outside the safe spawn area.
C14_Witness ==
    /\ FreshGame /\ last_tick = NoTick
    /\ \E o \in obstacles : Chebyshev(o, positions[1]) = 3

\* A coordinate one step off the grid, brought back onto the torus.
Wrapped(v) == IF v = GRID_SIZE THEN 0 ELSE IF v = 0 - 1 THEN GRID_SIZE - 1 ELSE v

\* A step of a running game that changes the body: an advance of the snake.
Advanced == ~game_over /\ positions' # positions

\* C15: movement is modular: an advance puts the new head at
\* ((head.x + heading.x) mod N, (head.y + heading.y) mod N), so from (N-1, y)
\* heading RIGHT it becomes (0, y), and every coordinate of every body cell
\* is in [0, N) in every reachable state.
C15_MovementIsModular ==
    /\ \A i \in 1..Len(positions) :
          positions[i][1] \in 0..(GRID_SIZE - 1) /\ positions[i][2] \in 0..(GRID_SIZE - 1)
    /\ [][Advanced =>
            /\ positions'[1] = <<Wrapped(positions[1][1] + direction'[1]),
                                 Wrapped(positions[1][2] + direction'[2])>>
            /\ (positions[1][1] = GRID_SIZE - 1 /\ direction' = RIGHT) =>
                  positions'[1] = <<0, positions[1][2]>>
            /\ \A i \in 1..Len(positions') :
                  /\ positions'[i][1] \in 0..(GRID_SIZE - 1)
                  /\ positions'[i][2] \in 0..(GRID_SIZE - 1)]_vars

\* The head has just crossed the right edge and come back in at column 0.
C15_Witness ==
    /\ Len(positions) >= 2 /\ direction = RIGHT /\ ~last_tick.collision
    /\ positions[2][1] = GRID_SIZE - 1 /\ positions[1] = <<0, positions[2][2]>>

\* A step of a running game in which Snake.move() was called.
MoveCalled == ~game_over /\ (positions' # positions \/ game_over')

\* C16: move() returns True exactly when the body has more than 2 cells and
\* the wrapped new head is in positions[2:], and then positions, length and
\* score are unchanged; otherwise it returns False, the new head becomes
\* positions[0], the previous cells follow in order, and the last cell is
\* removed exactly when the list would exceed length.
C16_MoveContract ==
    [][MoveCalled =>
        LET new_head == <<(positions[1][1] + direction'[1]) % GRID_SIZE,
                          (positions[1][2] + direction'[2]) % GRID_SIZE>>
            returned == last_tick'.collision
            grown == Len(positions) + 1
        IN  /\ returned <=> (/\ Len(positions) > 2
                             /\ \E i \in 3..Len(positions) : positions[i] = new_head)
            /\ returned => UNCHANGED <<positions, length, score>>
            /\ ~returned =>
                  /\ positions'[1] = new_head
                  /\ Len(positions') = (IF grown > length THEN grown - 1 ELSE grown)
                  /\ \A i \in 2..Len(positions') : positions'[i] = positions[i - 1]]_vars

\* move() has returned True on a body of more than 2 cells, which it left alone.
C16_Witness ==
    /\ last_tick.collision /\ Len(positions) > 2
    /\ \E i \in 3..Len(positions) :
          positions[i] = <<(positions[1][1] + direction[1]) % GRID_SIZE,
                           (positions[1][2] + direction[2]) % GRID_SIZE>>

\* C17: self-reversal is prevented: with a body of at least 2 cells and the
\* autopilot off, whatever arrow keys come between two advances, the next
\* advance never moves the head onto positions[1].
C17_NoSelfReversal ==
    [][(Advanced /\ ~autopilot_on /\ Len(positions) >= 2) =>
          positions'[1] # positions[2]]_vars

\* C18: whenever autopilot_path is non-empty at the end of a tick or of an
\* event, its last element is the current food position.
C18_PathEndsAtFood ==
    autopilot_path # <<>> => autopilot_path[Len(autopilot_path)] = food

\* A plan of several cells is being followed.
C18_Witness ==
    /\ autopilot_on /\ Len(autopilot_path) >= 2 /\ last_tick.mode \in {"plan", "follow"}
    /\ autopilot_path[Len(autopilot_path)] = food

\* C19: plan following reaches the goal: at every tick that follows an
\* adopted path the head moves onto the cell popped from the path (so the
\* food, the last cell, is consumed at the last of those ticks).
C19_FollowReachesGoal ==
    last_tick.mode \in {"plan", "follow"} => positions[1] = last_tick.popped

\* ------------------------------------------------------------- fair game loop
\* The game loop when no arrow key is pressed: the autopilot key, the restart
\* key and the tick.
NextAuto ==
    \/ KeyA
    \/ KeyR
    \/ Tick

\* The game loop with its scheduling: "while True" runs the tick of lines
\* 290-364 in every iteration, so a tick that can change the state is never
\* put off forever; key events may or may not come.
SpecAuto == Init /\ [][NextAuto]_vars /\ WF_vars(Tick)

\* The modelled run ends here: the snake has outgrown MaxLength, or the food
\* eaten next has no free cell left within MaxRandom.
RunCutShort == ~game_over /\ ~ENABLED <<Tick>>_vars

\* C20: with the autopilot continuously on and ticks occurring, every run
\* eventually consumes the current food or reaches game over (runs that
\* toggle the autopilot off, or that the bounds cut short, are left out).
C20_AutopilotProgress ==
    \A n \in 0..MaxLength :
        (autopilot_on /\ ~game_over /\ score = n)
            ~> (~autopilot_on \/ game_over \/ score # n \/ RunCutShort)

====
